---- MODULE Spec2Model ----
(***************************************************************************)
(* svelte-injector: the component lifecycle and synchronization engine of  *)
(* src/src/lib/SvelteInjector.ts (registry of links, placeholder parsing,  *)
(* index assignment, create / hydrate, the shared `components` store, the  *)
(* per-element observers) together with the renderer that mounts a Portal  *)
(* (src/unnamed/part_007) for every stored element that is to be rendered. *)
(*                                                                         *)
(* JavaScript is single threaded: every action below is one synchronous    *)
(* run of code between two suspension points (an `await`, a promise        *)
(* callback, the renderer's flush).                                        *)
(***************************************************************************)
EXTENDS Integers, Sequences, FiniteSets, TLC

-----------------------------------------------------------------------------
(* Bounds of the exploration *)

\* number of create / hydrate calls issued in one session
MaxCalls == 2
\* number of destroy / updateProps / setToRender calls in one session
MaxOps == 2
\* number of registerComponent calls in a session that registers names anew
MaxRegs == 3
\* length of the strings a property object holds
MaxLen == 2
\* number of members of a property object
MaxMembers == 2

-----------------------------------------------------------------------------
(* JavaScript values *)

\* the value `undefined`
Undefined == "undefined"

\* host nodes of the document, in document order below document.body
DocOrder == <<"n1", "n2">>
Nodes == {DocOrder[i] : i \in 1..Len(DocOrder)}

\* an element of the document, child of document.body, that the host can
\* move placeholders into and can take out of the document
Containers == {"aside"}
Parents == {"body"} \cup Containers

\* names used in registerComponent / create / data-component-name
LinkNames == {"hello", "HELLO", "lazy"}

\* what registerComponent is called with: a class, or a function returning a
\* promise of a class
RegInputs ==
    << [name |-> "hello", isClass |-> TRUE,  cls |-> "Hello"],
       [name |-> "lazy",  isClass |-> FALSE, cls |-> "Lazy"] >>

\* what registerComponent is called with in a session that registers a name
\* more than once
RegistryInputs ==
    { [name |-> "hello", isClass |-> TRUE,  cls |-> "Hello"],
      [name |-> "hello", isClass |-> TRUE,  cls |-> "Other"],
      [name |-> "lazy",  isClass |-> FALSE, cls |-> "Lazy"],
      [name |-> "lazy",  isClass |-> FALSE, cls |-> "Later"] }

\* the names findComponentByName is called with
FindInputs == {"hello", "HELLO", "lazy"}

\* options objects handed to create / hydrate
NoOptions == <<>>
NoObservers == [observeParents |-> FALSE, observe |-> FALSE]

\* the arguments create is called with: by link name ...
CreateByNameInputs ==
    { [node |-> "n1", name |-> "hello", props |-> "world", toRender |-> "true",
       options |-> NoOptions],
      [node |-> "n1", name |-> "hello", props |-> "world", toRender |-> "false",
       options |-> NoObservers],
      [node |-> "n2", name |-> "lazy", props |-> "world", toRender |-> "true",
       options |-> NoOptions] }

\* ... and by component class
CreateByClassInputs ==
    { [node |-> "n2", cls |-> "Hello", props |-> "world", toRender |-> "true",
       options |-> NoOptions] }

\* the options hydrate(document.body, options) is called with
HydrateInputs == { NoOptions }

\* property bags handed to updateProps
PropsInputs == {"moon"}

\* values handed to setToRender
ToRenderInputs == {"true", "false"}

\* texts the host writes into a placeholder's template.props: valid JSON,
\* and JSON with an unquoted key
PropsTextInputs == {"{\"name\":\"moon\"}", "{name: hello}"}

\* values the host writes into a placeholder's data-to-render attribute
ToRenderAttrInputs == {"true", "false"}

\* texts the host puts into template.props as a new text node: those, the
\* text the document starts with, and none
ContentInputs == PropsTextInputs \cup {"{\"name\":\"world\"}", ""}

\* create called with a class on the placeholder that has a props template
ContentCreateInputs ==
    {[node |-> "n1", cls |-> "Hello", props |-> "world", toRender |-> "true",
      options |-> NoOptions]}

\* the same, with a value that is no JSON
HostAttrInputs == ToRenderAttrInputs \cup {"yes"}

(* The props codec: stringify / parseProps, encodeProps / decodeProps *)

\* A text is a sequence of characters.  A property object is the sequence of
\* its members, in insertion order; a member has a key and a value that is
\* a string or one of the literals true, false, null, 1.
Sigma == {"a", "\"", "\\", "%", "\n"}
Strings == UNION {[1..k -> Sigma] : k \in 0..MaxLen}
Literals == {<<"t", "r", "u", "e">>, <<"f", "a", "l", "s", "e">>,
             <<"n", "u", "l", "l">>, <<"1">>}
Keys == {<<"a">>, <<"b", "\"">>}
Members ==
    {[key |-> k, t |-> "string", s |-> s] : k \in Keys, s \in Strings}
    \cup {[key |-> k, t |-> "literal", s |-> l] : k \in Keys, l \in Literals}
PropsObjects ==
    {x \in UNION {[1..k -> Members] : k \in 0..MaxMembers} :
        \A i, j \in 1..Len(x) : x[i].key = x[j].key => i = j}

\* the outcome of a call that throws, and of one not made yet
Thrown == [ok |-> FALSE, v |-> <<>>]
NotCalled == [ok |-> FALSE, v |-> <<>>]
Returned(v) == [ok |-> TRUE, v |-> v]

\* JSON.stringify of a string: quoted, with ", \ and the newline escaped
RECURSIVE QuoteChars(_)
QuoteChars(s) ==
    IF s = <<>> THEN <<>>
    ELSE (CASE Head(s) = "\"" -> <<"\\", "\"">>
            [] Head(s) = "\\" -> <<"\\", "\\">>
            [] Head(s) = "\n" -> <<"\\", "n">>
            [] OTHER -> <<Head(s)>>) \o QuoteChars(Tail(s))

Quote(s) == <<"\"">> \o QuoteChars(s) \o <<"\"">>

\* the members, one per line, indented by space = 2 and separated by commas
RECURSIVE StringifyMembers(_)
StringifyMembers(x) ==
    LET m == Head(x)
        line == <<" ", " ">> \o Quote(m.key) \o <<":", " ">>
                \o (IF m.t = "string" THEN Quote(m.s) ELSE m.s)
    IN  IF Len(x) = 1 THEN line
        ELSE line \o <<",", "\n">> \o StringifyMembers(Tail(x))

\* stringify: JSON.stringify(value, null, 2)
stringify(value) ==
    IF value = <<>> THEN <<"{", "}">>
    ELSE <<"{", "\n">> \o StringifyMembers(value) \o <<"\n", "}">>

\* JSON.parse: white space is skipped between tokens
RECURSIVE SkipWs(_, _)
SkipWs(t, i) ==
    IF i <= Len(t) /\ t[i] \in {" ", "\n"} THEN SkipWs(t, i + 1) ELSE i

Fail == [ok |-> FALSE, v |-> <<>>, next |-> 0]

\* JSON.parse of a string from the character after its opening quote: an
\* escape stands for its character, a raw newline is a syntax error
RECURSIVE ParseString(_, _, _)
ParseString(t, i, acc) ==
    IF i > Len(t) THEN Fail
    ELSE IF t[i] = "\"" THEN [ok |-> TRUE, v |-> acc, next |-> i + 1]
    ELSE IF t[i] = "\\"
         THEN IF i + 1 <= Len(t) /\ t[i + 1] \in {"\"", "\\", "n"}
              THEN ParseString(t, i + 2,
                       Append(acc, IF t[i + 1] = "n" THEN "\n" ELSE t[i + 1]))
              ELSE Fail
    ELSE IF t[i] = "\n" THEN Fail
    ELSE ParseString(t, i + 1, Append(acc, t[i]))

\* the end of the run of letters and digits that starts at i
RECURSIVE TokenEnd(_, _)
TokenEnd(t, i) ==
    IF i <= Len(t) /\ t[i] \in {"t", "r", "u", "e", "f", "a", "l", "s", "n", "1"}
    THEN TokenEnd(t, i + 1) ELSE i

\* JSON.parse of true, false, null or a number
ParseLiteral(t, i) ==
    LET token == SubSeq(t, i, TokenEnd(t, i) - 1)
    IN  IF token \in Literals
        THEN [ok |-> TRUE, v |-> token, next |-> TokenEnd(t, i)]
        ELSE Fail

\* JSON.parse of one member: "key" : value
ParseMember(t, i) ==
    LET a == SkipWs(t, i)
        k == ParseString(t, a + 1, <<>>)
        b == SkipWs(t, k.next)
        c == SkipWs(t, b + 1)
        s == ParseString(t, c + 1, <<>>)
        l == ParseLiteral(t, c)
    IN  IF a > Len(t) \/ t[a] # "\"" THEN Fail
        ELSE IF ~k.ok THEN Fail
        ELSE IF b > Len(t) \/ t[b] # ":" THEN Fail
        ELSE IF c > Len(t) THEN Fail
        ELSE IF t[c] = "\""
             THEN IF s.ok
                  THEN [ok |-> TRUE, next |-> s.next,
                        v |-> [key |-> k.v, t |-> "string", s |-> s.v]]
                  ELSE Fail
        ELSE IF l.ok
             THEN [ok |-> TRUE, next |-> l.next,
                   v |-> [key |-> k.v, t |-> "literal", s |-> l.v]]
             ELSE Fail

\* JSON.parse of the members up to the closing brace
RECURSIVE ParseMembers(_, _, _)
ParseMembers(t, i, acc) ==
    LET m == ParseMember(t, i)
        d == SkipWs(t, m.next)
    IN  IF ~m.ok THEN Fail
        ELSE IF d > Len(t) THEN Fail
        ELSE IF t[d] = "," THEN ParseMembers(t, d + 1, Append(acc, m.v))
        ELSE IF t[d] = "}" THEN [ok |-> TRUE, v |-> Append(acc, m.v), next |-> d + 1]
        ELSE Fail

\* parseProps: JSON.parse(value); a syntax error is thrown
parseProps(value) ==
    LET a == SkipWs(value, 1)
        b == SkipWs(value, a + 1)
        r == IF b <= Len(value) /\ value[b] = "}"
             THEN [ok |-> TRUE, v |-> <<>>, next |-> b + 1]
             ELSE ParseMembers(value, a + 1, <<>>)
    IN  IF a > Len(value) \/ value[a] # "{" THEN Thrown
        ELSE IF r.ok /\ SkipWs(value, r.next) > Len(value) THEN Returned(r.v)
        ELSE Thrown

\* the characters encodeURIComponent escapes, and the two hex digits of each
Reserved == {" ", "\"", "%", ",", ":", "\\", "{", "}", "\n"}
PercentCode(ch) ==
    CASE ch = " " -> <<"2", "0">>
      [] ch = "\"" -> <<"2", "2">>
      [] ch = "%" -> <<"2", "5">>
      [] ch = "," -> <<"2", "C">>
      [] ch = ":" -> <<"3", "A">>
      [] ch = "\\" -> <<"5", "C">>
      [] ch = "{" -> <<"7", "B">>
      [] ch = "}" -> <<"7", "D">>
      [] ch = "\n" -> <<"0", "A">>

\* encodeURIComponent: letters and digits stay, the rest becomes %XX
RECURSIVE encodeURIComponent(_)
encodeURIComponent(text) ==
    IF text = <<>> THEN <<>>
    ELSE (IF Head(text) \in Reserved
          THEN <<"%">> \o PercentCode(Head(text))
          ELSE <<Head(text)>>) \o encodeURIComponent(Tail(text))

\* decodeURIComponent: %XX becomes its character; a % that no two hex
\* digits of a character follow is a URIError
RECURSIVE decodeURIComponent(_)
decodeURIComponent(text) ==
    IF text = <<>> THEN Returned(<<>>)
    ELSE IF Head(text) = "%"
         THEN IF Len(text) >= 3
                 /\ \E ch \in Reserved : PercentCode(ch) = <<text[2], text[3]>>
              THEN LET ch == CHOOSE r \in Reserved : PercentCode(r) = <<text[2], text[3]>>
                       rest == decodeURIComponent(SubSeq(text, 4, Len(text)))
                   IN  IF rest.ok THEN Returned(<<ch>> \o rest.v) ELSE Thrown
              ELSE Thrown
    ELSE LET rest == decodeURIComponent(Tail(text))
         IN  IF rest.ok THEN Returned(<<Head(text)>> \o rest.v) ELSE Thrown

\* encodeProps: encodeURIComponent(stringify(value))
encodeProps(value) == encodeURIComponent(stringify(value))

\* variant: the text is parsed as it is, percent escapes and all
decodePropsUndecoded(value) == parseProps(value)

\* decodeProps: parseProps(decodeURIComponent(value))
decodeProps(value) ==
    LET decoded == decodeURIComponent(value)
    IN  IF decoded.ok THEN parseProps(decoded.v) ELSE Thrown

-----------------------------------------------------------------------------
VARIABLES
    links,      \* the registry: name -> SvelteLink
    regCount,   \* number of link objects created so far (identity of a link)
    lastIndex,  \* the last index handed out
    dom,        \* the host nodes: attributes, props block, parent
    elems,      \* every SvelteBaseElement / SvelteElement object ever built
    store,      \* the `components` writable store: a sequence of element ids
    dirty,      \* a store notification the renderer has not yet flushed
    instances,  \* the renderer's live Portal instance per element
    connected,  \* the MutationObservers currently observing
    calls,      \* the create / hydrate calls of the session
    ops,        \* number of element methods called so far
    codec       \* the call of a codec function: argument, text, value read back

vars == <<links, regCount, lastIndex, dom, elems, store, dirty, instances,
          connected, calls, ops, codec>>

Calls == 1..MaxCalls
ElemIds == 1..Len(elems)

-----------------------------------------------------------------------------
(* Pure helpers *)

\* Number.prototype.toString for a non-negative integer: its decimal digits
RECURSIVE IndexToString(_)
IndexToString(i) == IF i < 10 THEN <<i>> ELSE IndexToString(i \div 10) \o <<i % 10>>

\* Number.parseInt of a string of decimal digits
RECURSIVE ParseInt(_)
ParseInt(s) ==
    IF Len(s) = 1 THEN s[1]
    ELSE 10 * ParseInt(SubSeq(s, 1, Len(s) - 1)) + s[Len(s)]

InSeq(s, x) == \E i \in 1..Len(s) : s[i] = x

\* Array.prototype.indexOf: 0-based position of x in s, or -1
IndexOf(s, x) ==
    IF \E i \in 1..Len(s) : s[i] = x
    THEN (CHOOSE i \in 1..Len(s) : s[i] = x /\ \A j \in 1..(i - 1) : s[j] # x) - 1
    ELSE -1

\* Array.prototype.splice(start, 1): a negative start counts from the end
Splice1(s, start) ==
    LET from == IF start < 0
                THEN (IF Len(s) + start < 0 THEN 0 ELSE Len(s) + start)
                ELSE (IF start > Len(s) THEN Len(s) ELSE start)
    IN  IF from >= Len(s) THEN s
        ELSE SubSeq(s, 1, from) \o SubSeq(s, from + 2, Len(s))

defaultOptions == [observe |-> TRUE, observeParents |-> TRUE]

sanitizeOptions(options) ==
    [k \in DOMAIN defaultOptions |->
        IF k \in DOMAIN options THEN options[k] ELSE defaultOptions[k]]

\* JavaScript truthiness of the values toRender can hold
Truthy(v) == v = "true"

\* the link object a name was never registered with
NoLink == [id |-> 0, svelteComponent |-> Undefined, hasGetter |-> FALSE,
           target |-> Undefined, pos |-> 0]

\* the call slot before its call is issued
IdleCall == [kind |-> "none", pc |-> "idle", node |-> "", name |-> "",
             props |-> Undefined, toRender |-> "true", options |-> <<>>,
             link |-> 0, getter |-> Undefined, found |-> Undefined, el |-> 0,
             items |-> <<>>, result |-> <<>>]

-----------------------------------------------------------------------------
(* Placeholder parsing *)

\* extractProps: the trimmed text of template.props, parsed as plain or
\* percent-encoded JSON; a parse error is logged and yields undefined
extractProps(node) ==
    LET props == dom[node].propsText
    IN  CASE props = "" -> "empty"
          [] props = "%7B%22name%22%3A%22world%22%7D" -> "world"
          [] props = "{\"name\":\"world\"}" -> "world"
          [] props = "{\"name\":\"moon\"}" -> "moon"
          [] OTHER -> Undefined

\* extractToRender: JSON.parse of data-to-render; absent means true, a
\* parse error is logged and yields undefined
extractToRender(node) ==
    LET toRenderAttribute == dom[node].toRenderAttr
    IN  CASE toRenderAttribute = "" -> "true"
          [] toRenderAttribute = "true" -> "true"
          [] toRenderAttribute = "false" -> "false"
          [] OTHER -> Undefined

\* findElementByIndex: the first stored element with that index, or 0
findElementByIndex(index, currentComponents) ==
    LET hits == {i \in 1..Len(currentComponents) :
                    IndexToString(elems[currentComponents[i]].index) = IndexToString(index)}
    IN  IF hits = {} THEN 0
        ELSE currentComponents[CHOOSE i \in hits : \A j \in hits : i <= j]

\* extractIndexOrCreateNew: the index read back from the node's attribute,
\* or a fresh one written onto the node
indexOf(node) ==
    IF dom[node].indexAttr # <<>> THEN ParseInt(dom[node].indexAttr)
    ELSE lastIndex + 1

\* variant: the attribute is written whether the node has one or not
domAfterIndexAlways(node) ==
    [dom EXCEPT ![node].indexAttr = IndexToString(lastIndex + 1)]

domAfterIndex(node) ==
    IF dom[node].indexAttr # <<>> THEN dom
    ELSE [dom EXCEPT ![node].indexAttr = IndexToString(lastIndex + 1)]

lastIndexAfter(node) ==
    IF dom[node].indexAttr # <<>> THEN lastIndex ELSE lastIndex + 1

\* the object createBaseElement / parseElement return
BaseElement(node, Component, props, toRender, index) ==
    [domElement |-> node, Component |-> Component, props |-> props,
     toRender |-> toRender, index |-> index,
     enhanced |-> FALSE, options |-> defaultOptions, observers |-> {},
     waiting |-> FALSE, mountResolved |-> FALSE,
     \* the MutationRecords queued for the element's data observer, and the
     \* remove observers of the element (by generation) that await a callback
     records |-> {}, notified |-> {},
     \* history: instantiations so far, the toRender it was built with,
     \* pushed to the store, the times toRender became true, updateProps
     \* called, destroy called
     mounts |-> 0, born |-> toRender, added |-> FALSE,
     activations |-> IF Truthy(toRender) THEN 1 ELSE 0,
     propsSet |-> FALSE, destroyed |-> FALSE]

-----------------------------------------------------------------------------
Init ==
    /\ links = [n \in LinkNames |-> NoLink]
    /\ regCount = 0
    /\ lastIndex = -1
    /\ dom = [n \in Nodes \cup Containers |->
                [componentName |-> IF n = "n1" THEN "hello"
                                   ELSE IF n = "n2" THEN "lazy" ELSE "",
                 toRenderAttr |-> IF n = "n2" THEN "false" ELSE "",
                 propsText |-> IF n = "n1" THEN "{\"name\":\"world\"}" ELSE "",
                 indexAttr |-> <<>>,
                 display |-> "",
                 parent |-> "body",
                 removedFrom |-> ""]]
    /\ elems = <<>>
    /\ store = <<>>
    /\ dirty = FALSE
    /\ instances = <<>>
    /\ connected = {}
    /\ calls = [c \in Calls |-> IdleCall]
    /\ ops = 0
    /\ codec = [pc |-> "idle", x |-> <<>>, text |-> <<>>, back |-> NotCalled]

\* registerComponent(name, svelteComponent)
registerComponent(r) ==
    /\ regCount' = regCount + 1
    /\ links' = [links EXCEPT ![r.name] =
                    [id |-> regCount + 1,
                     svelteComponent |-> IF r.isClass THEN r.cls ELSE Undefined,
                     hasGetter |-> ~r.isClass,
                     target |-> r.cls,
                     pos |-> IF links[r.name].id # 0 THEN links[r.name].pos
                             ELSE Cardinality({n \in LinkNames : links[n].id # 0}) + 1]]
    /\ UNCHANGED <<lastIndex, dom, elems, store, dirty, instances, connected, calls, ops, codec>>

-----------------------------------------------------------------------------
(* findComponentByName, as far as its first suspension point *)

\* the link has no class yet but a getter: the getter is invoked and awaited
MustAwaitGetter(name) ==
    /\ name \in LinkNames
    /\ links[name].svelteComponent = Undefined
    /\ links[name].hasGetter

\* the class found without awaiting a getter (undefined when not linked)
FoundNow(name) ==
    IF name \in LinkNames THEN links[name].svelteComponent ELSE Undefined

\* variant: the class the getter yields is returned but not kept on the link
linksAfterGetterUncached(name, linkId) == links

\* link.svelteComponent = component, on the link object captured at lookup
linksAfterGetter(name, linkId) ==
    IF links[name].id = linkId
    THEN [links EXCEPT ![name].svelteComponent = links[name].target]
    ELSE links

\* findRegisteredComponentNameByClass: the first key of links, in the order
\* the keys were inserted, whose link holds the class; undefined if none
findRegisteredComponentNameByClass(Class) ==
    LET hits == {n \in LinkNames :
                    links[n].id # 0 /\ links[n].svelteComponent = Class}
    IN  IF hits = {} THEN Undefined
        ELSE CHOOSE n \in hits : \A m \in hits : links[n].pos <= links[m].pos

FirstIdle(c) ==
    /\ calls[c].pc = "idle"
    /\ \A d \in Calls : d < c => calls[d].pc # "idle"

\* findComponentByName(name) called by the host: returns at once, or
\* invokes the getter and suspends
findComponentByName(c, name) ==
    /\ FirstIdle(c)
    /\ calls' = [calls EXCEPT ![c] =
            [IdleCall EXCEPT !.kind = "find", !.name = name,
                !.link = IF name \in LinkNames THEN links[name].id ELSE 0,
                !.getter = IF MustAwaitGetter(name) THEN links[name].target
                           ELSE Undefined,
                !.found = IF MustAwaitGetter(name) THEN Undefined ELSE FoundNow(name),
                !.pc = IF MustAwaitGetter(name) THEN "f_getter" ELSE "resolved"]]
    /\ UNCHANGED <<links, regCount, lastIndex, dom, elems, store, dirty,
                   instances, connected, ops, codec>>

\* variant: the class is stored on the link whether the getter resolves or
\* rejects
findGetterSettlesCaching(c, ok) ==
    /\ calls[c].pc = "f_getter"
    /\ links' = linksAfterGetter(calls[c].name, calls[c].link)
    /\ IF ok
       THEN calls' = [calls EXCEPT ![c].pc = "resolved",
                                   ![c].found = calls[c].getter]
       ELSE calls' = [calls EXCEPT ![c].pc = "rejected"]
    /\ UNCHANGED <<regCount, lastIndex, dom, elems, store, dirty, instances, connected, ops, codec>>

\* the getter awaited by a findComponentByName call settles
findGetterSettles(c, ok) ==
    /\ calls[c].pc = "f_getter"
    /\ IF ok
       THEN /\ links' = linksAfterGetter(calls[c].name, calls[c].link)
            /\ calls' = [calls EXCEPT ![c].pc = "resolved",
                                      ![c].found = calls[c].getter]
       ELSE /\ links' = links
            /\ calls' = [calls EXCEPT ![c].pc = "rejected"]
    /\ UNCHANGED <<regCount, lastIndex, dom, elems, store, dirty, instances, connected, ops, codec>>

NoInstance == [live |-> FALSE, constructedWith |-> Undefined, props |-> Undefined]

-----------------------------------------------------------------------------
(* create *)

\* create(domElement, component, props, toRender, options) with a link
\* name: runs into findComponentByName and suspends at the first await
createByName(c, node, name, props, toRender, options) ==
    /\ FirstIdle(c)
    /\ calls' = [calls EXCEPT ![c] =
            [IdleCall EXCEPT !.kind = "create", !.node = node, !.name = name,
                !.props = props, !.toRender = toRender, !.options = options,
                !.link = IF name \in LinkNames THEN links[name].id ELSE 0,
                !.getter = IF MustAwaitGetter(name) THEN links[name].target
                           ELSE Undefined,
                !.found = IF MustAwaitGetter(name) THEN Undefined ELSE FoundNow(name),
                !.pc = IF MustAwaitGetter(name) THEN "c_getter" ELSE "c_base"]]
    /\ UNCHANGED <<links, regCount, lastIndex, dom, elems, store, dirty,
                   instances, connected, ops, codec>>

\* create(domElement, component, ...) with a component class:
\* createBaseElement runs to its end before create suspends
createByClass(c, node, cls, props, toRender, options) ==
    /\ FirstIdle(c)
    /\ elems' = Append(elems, BaseElement(node, cls, props, toRender, indexOf(node)))
    /\ instances' = Append(instances, NoInstance)
    /\ dom' = domAfterIndex(node)
    /\ lastIndex' = lastIndexAfter(node)
    /\ calls' = [calls EXCEPT ![c] =
            [IdleCall EXCEPT !.kind = "create", !.node = node, !.name = "",
                !.props = props, !.toRender = toRender, !.options = options,
                !.found = cls, !.el = Len(elems) + 1, !.pc = "c_enhance"]]
    /\ UNCHANGED <<links, regCount, store, dirty, connected, ops, codec>>

\* the awaited getter of a create call settles
createGetterSettles(c, ok) ==
    /\ calls[c].pc = "c_getter"
    /\ IF ok
       THEN /\ links' = linksAfterGetter(calls[c].name, calls[c].link)
            /\ calls' = [calls EXCEPT ![c].pc = "c_base",
                                      ![c].found = calls[c].getter]
       ELSE /\ links' = links
            /\ calls' = [calls EXCEPT ![c].pc = "rejected"]
    /\ UNCHANGED <<regCount, lastIndex, dom, elems, store, dirty, instances, connected, ops, codec>>

\* variant: the index is assigned although no component was found
createBaseElementUnchecked(c) ==
    /\ calls[c].pc = "c_base"
    /\ elems' = Append(elems, BaseElement(calls[c].node, calls[c].found,
                    calls[c].props, calls[c].toRender, indexOf(calls[c].node)))
    /\ instances' = Append(instances, NoInstance)
    /\ dom' = domAfterIndex(calls[c].node)
    /\ lastIndex' = lastIndexAfter(calls[c].node)
    /\ calls' = [calls EXCEPT ![c].pc = IF calls[c].found = Undefined
                                        THEN "rejected" ELSE "c_enhance",
                              ![c].el = Len(elems) + 1]
    /\ UNCHANGED <<links, regCount, store, dirty, connected, ops, codec>>

\* createBaseElement after `await findComponentByName`
createBaseElement(c) ==
    /\ calls[c].pc = "c_base"
    /\ IF calls[c].found = Undefined
       THEN /\ calls' = [calls EXCEPT ![c].pc = "rejected"]
            /\ UNCHANGED <<elems, instances, dom, lastIndex, codec>>
       ELSE /\ elems' = Append(elems, BaseElement(calls[c].node, calls[c].found,
                            calls[c].props, calls[c].toRender, indexOf(calls[c].node)))
            /\ instances' = Append(instances, NoInstance)
            /\ dom' = domAfterIndex(calls[c].node)
            /\ lastIndex' = lastIndexAfter(calls[c].node)
            /\ calls' = [calls EXCEPT ![c].pc = "c_enhance", ![c].el = Len(elems) + 1]
    /\ UNCHANGED <<links, regCount, store, dirty, connected, ops, codec>>

\* variant: the check never finds the index
alreadyCreatedNever(e) == FALSE

\* enhanceBaseElement's check: an element with this index is in the store
alreadyCreated(e) == findElementByIndex(elems[e].index, store) # 0

\* enhanceBaseElement past its check: display: contents on a placeholder,
\* the options and the methods
enhanced(e, options) ==
    [elems[e] EXCEPT !.enhanced = TRUE, !.options = options]

domAfterEnhance(d, e) ==
    IF d[elems[e].domElement].componentName # ""
    THEN [d EXCEPT ![elems[e].domElement].display = "contents"]
    ELSE d

\* create after `await createBaseElement`: enhanceBaseElement
createEnhance(c) ==
    /\ calls[c].pc = "c_enhance"
    /\ IF alreadyCreated(calls[c].el)
       THEN /\ calls' = [calls EXCEPT ![c].pc = "rejected"]
            /\ UNCHANGED <<elems, dom, codec>>
       ELSE /\ elems' = [elems EXCEPT ![calls[c].el] =
                            enhanced(calls[c].el, sanitizeOptions(calls[c].options))]
            /\ dom' = domAfterEnhance(dom, calls[c].el)
            /\ calls' = [calls EXCEPT ![c].pc = "c_add"]
    /\ UNCHANGED <<links, regCount, lastIndex, store, dirty, instances, connected, ops, codec>>

\* variant: resolved at once whatever toRender is
resolveOnMountAtOnce(el) == [el EXCEPT !.mountResolved = TRUE]

\* resolveOnMount: resolved at once when the element is not to render,
\* otherwise by the element's wrapped onMount
resolveOnMount(el) ==
    IF ~Truthy(el.toRender)
    THEN [el EXCEPT !.mountResolved = TRUE]
    ELSE [el EXCEPT !.waiting = TRUE]

\* variant: every element is pushed, whether or not its index is stored
addComponentsAll(components, elements, es) == components \o elements

\* addComponents: one store update pushing every element whose index is not
\* yet in the store
RECURSIVE addComponents(_, _, _)
addComponents(components, elements, es) ==
    IF elements = <<>> THEN components
    ELSE LET element == Head(elements)
             alreadyAdded ==
                \E i \in 1..Len(components) :
                    IndexToString(es[components[i]].index) = IndexToString(es[element].index)
         IN  addComponents(IF alreadyAdded THEN components
                           ELSE Append(components, element),
                           Tail(elements), es)

\* create after `await enhanceBaseElement`: resolveOnMount, addComponents
createAdd(c) ==
    /\ calls[c].pc = "c_add"
    /\ store' = addComponents(store, <<calls[c].el>>, elems)
    /\ elems' = [elems EXCEPT ![calls[c].el] =
                    [resolveOnMount(elems[calls[c].el]) EXCEPT
                        !.added = InSeq(store', calls[c].el)]]
    /\ dirty' = TRUE
    /\ calls' = [calls EXCEPT ![c].pc = "c_wait", ![c].result = <<calls[c].el>>]
    /\ UNCHANGED <<links, regCount, lastIndex, dom, instances, connected, ops, codec>>

\* the promise a call returned is resolved: the one of create with its
\* element's mount promise, the one of hydrate with Promise.all of them
Resolved(c) ==
    \/ calls[c].pc = "resolved"
    \/ /\ calls[c].pc \in {"c_wait", "h_wait"}
       /\ \A i \in 1..Len(calls[c].result) : elems[calls[c].result[i]].mountResolved

Rejected(c) == calls[c].pc = "rejected"

-----------------------------------------------------------------------------
(* hydrate *)

\* document.body.contains(domElement): the node is a child of document.body
\* or of a container that is
contains(node) ==
    \/ dom[node].parent = "body"
    \/ dom[node].parent \in Containers /\ dom[dom[node].parent].parent = "body"

\* querySelectorAll('[data-component-name]') below document.body
RECURSIVE Placeholders(_)
Placeholders(order) ==
    IF order = <<>> THEN <<>>
    ELSE (IF dom[Head(order)].componentName # "" /\ contains(Head(order))
          THEN <<Head(order)>> ELSE <<>>) \o Placeholders(Tail(order))

\* parseElement as far as its `await findComponentByName`
ItemStart(node) ==
    LET name == dom[node].componentName
    IN  [node |-> node, name |-> name,
         link |-> IF name \in LinkNames THEN links[name].id ELSE 0,
         getter |-> IF MustAwaitGetter(name) THEN links[name].target ELSE Undefined,
         st |-> IF MustAwaitGetter(name) THEN "getter" ELSE "found",
         comp |-> IF MustAwaitGetter(name) THEN Undefined ELSE FoundNow(name),
         indexed |-> dom[node].indexAttr # <<>>,
         el |-> 0]

\* hydrate(domTarget, options): the query, and parseElement started on
\* every placeholder found
hydrate(c, options) ==
    /\ FirstIdle(c)
    /\ LET svelteElements == Placeholders(DocOrder)
       IN  calls' = [calls EXCEPT ![c] =
             [IdleCall EXCEPT !.kind = "hydrate", !.options = options,
                !.items = [i \in 1..Len(svelteElements) |-> ItemStart(svelteElements[i])],
                !.pc = IF svelteElements = <<>> THEN "resolved" ELSE "h_parse"]]
    /\ UNCHANGED <<links, regCount, lastIndex, dom, elems, store, dirty,
                   instances, connected, ops, codec>>

\* the getter awaited by one parseElement settles
parseGetterSettles(c, i, ok) ==
    /\ calls[c].pc = "h_parse"
    /\ i \in 1..Len(calls[c].items)
    /\ calls[c].items[i].st = "getter"
    /\ IF ok
       THEN /\ links' = linksAfterGetter(calls[c].items[i].name, calls[c].items[i].link)
            /\ calls' = [calls EXCEPT ![c].items[i].st = "found",
                            ![c].items[i].comp = calls[c].items[i].getter]
       ELSE /\ links' = links
            /\ calls' = [calls EXCEPT ![c].items[i].st = "rejected"]
    /\ UNCHANGED <<regCount, lastIndex, dom, elems, store, dirty, instances, connected, ops, codec>>

\* variant: the index is taken before the component is looked at
parseElementIndexingFirst(c, i) ==
    /\ calls[c].pc = "h_parse"
    /\ i \in 1..Len(calls[c].items)
    /\ calls[c].items[i].st = "found"
    /\ LET item == calls[c].items[i]
       IN  /\ dom' = domAfterIndex(item.node)
           /\ lastIndex' = lastIndexAfter(item.node)
           /\ IF item.comp = Undefined
              THEN /\ calls' = [calls EXCEPT ![c].items[i].st = "rejected"]
                   /\ UNCHANGED <<elems, instances>>
              ELSE /\ elems' = Append(elems, BaseElement(item.node, item.comp,
                                   extractProps(item.node), extractToRender(item.node),
                                   indexOf(item.node)))
                   /\ instances' = Append(instances, NoInstance)
                   /\ calls' = [calls EXCEPT ![c].items[i].st = "parsed",
                                             ![c].items[i].el = Len(elems) + 1]
    /\ UNCHANGED <<links, regCount, store, dirty, connected, ops, codec>>

\* parseElement after `await findComponentByName`
parseElement(c, i) ==
    /\ calls[c].pc = "h_parse"
    /\ i \in 1..Len(calls[c].items)
    /\ calls[c].items[i].st = "found"
    /\ LET item == calls[c].items[i]
       IN  IF item.comp = Undefined
           THEN /\ calls' = [calls EXCEPT ![c].items[i].st = "rejected"]
                /\ UNCHANGED <<elems, instances, dom, lastIndex, codec>>
           ELSE /\ elems' = Append(elems, BaseElement(item.node, item.comp,
                                extractProps(item.node), extractToRender(item.node),
                                indexOf(item.node)))
                /\ instances' = Append(instances, NoInstance)
                /\ dom' = domAfterIndex(item.node)
                /\ lastIndex' = lastIndexAfter(item.node)
                /\ calls' = [calls EXCEPT ![c].items[i].st = "parsed",
                                          ![c].items[i].el = Len(elems) + 1]
    /\ UNCHANGED <<links, regCount, store, dirty, connected, ops, codec>>

\* variant: the parsed elements in the order parseElement built them
successfulElementsByCompletion(items) ==
    LET ids == {items[i].el : i \in {j \in 1..Len(items) : items[j].st = "parsed"}}
    IN  CHOOSE sorted \in [1..Cardinality(ids) -> ids] :
            \A x, y \in 1..Cardinality(ids) : x < y => sorted[x] < sorted[y]

\* the elements of the fulfilled parseElement promises, in order
RECURSIVE successfulElements(_)
successfulElements(items) ==
    IF items = <<>> THEN <<>>
    ELSE (IF Head(items).st = "parsed" THEN <<Head(items).el>> ELSE <<>>)
         \o successfulElements(Tail(items))

\* those of them that enhanceBaseElement does not reject
createdElements(successful) ==
    SelectSeq(successful, LAMBDA e : ~alreadyCreated(e))

RECURSIVE domAfterEnhanceAll(_, _)
domAfterEnhanceAll(d, es) ==
    IF es = <<>> THEN d
    ELSE domAfterEnhanceAll(domAfterEnhance(d, Head(es)), Tail(es))

\* variant: hydrate goes on as soon as one parseElement promise is fulfilled
hydrateEnhanceEarly(c) ==
    /\ calls[c].pc = "h_parse"
    /\ \E i \in 1..Len(calls[c].items) : calls[c].items[i].st = "parsed"
    /\ LET created == createdElements(successfulElements(calls[c].items))
       IN  /\ elems' = [e \in 1..Len(elems) |->
                          IF InSeq(created, e)
                          THEN enhanced(e, sanitizeOptions(calls[c].options))
                          ELSE elems[e]]
           /\ dom' = domAfterEnhanceAll(dom, created)
           /\ calls' = [calls EXCEPT ![c].pc = "h_add", ![c].result = created]
    /\ UNCHANGED <<links, regCount, lastIndex, store, dirty, instances, connected, ops, codec>>

\* hydrate after Promise.allSettled: enhanceBaseElement on every parsed
\* element, rejections caught and warned about
hydrateEnhance(c) ==
    /\ calls[c].pc = "h_parse"
    /\ \A i \in 1..Len(calls[c].items) : calls[c].items[i].st \in {"parsed", "rejected"}
    /\ LET created == createdElements(successfulElements(calls[c].items))
       IN  /\ elems' = [e \in 1..Len(elems) |->
                          IF InSeq(created, e)
                          THEN enhanced(e, sanitizeOptions(calls[c].options))
                          ELSE elems[e]]
           /\ dom' = domAfterEnhanceAll(dom, created)
           /\ calls' = [calls EXCEPT ![c].pc = "h_add", ![c].result = created]
    /\ UNCHANGED <<links, regCount, lastIndex, store, dirty, instances, connected, ops, codec>>

\* hydrate after `await Promise.all(enhanced)`: resolveOnMount on each
\* element, then one addComponents for all of them
hydrateAdd(c) ==
    /\ calls[c].pc = "h_add"
    /\ store' = addComponents(store, calls[c].result, elems)
    /\ elems' = [e \in 1..Len(elems) |->
                    IF InSeq(calls[c].result, e)
                    THEN [resolveOnMount(elems[e]) EXCEPT !.added = InSeq(store', e)]
                    ELSE elems[e]]
    /\ dirty' = TRUE
    /\ calls' = [calls EXCEPT ![c].pc = "h_wait"]
    /\ UNCHANGED <<links, regCount, lastIndex, dom, instances, connected, ops, codec>>

-----------------------------------------------------------------------------
(* The element's methods *)

\* the elements a caller can hold: taken from the store or returned by a call
Known(e) ==
    /\ e \in ElemIds
    /\ elems[e].enhanced
    /\ \/ elems[e].added
       \/ \E c \in Calls : Resolved(c) /\ InSeq(calls[c].result, e)

\* variant: an element that is not in the array is pushed
updateComponentsPushing(components, element) ==
    IF IndexOf(components, element) >= 0 THEN components
    ELSE Append(components, element)

\* updateComponents([element])'s effect on the array: components[index] =
\* element, which for index -1 sets a property of that name and no element
\* of the array
updateComponents(components, element) ==
    LET index == IndexOf(components, element)
    IN  IF index >= 0 THEN [components EXCEPT ![index + 1] = element]
        ELSE components

\* variant: the splice takes the last element of the store
destroyElementLast(e) ==
    /\ ops' = ops + 1
    /\ connected' = connected \ elems[e].observers
    /\ store' = Splice1(store, -1)
    /\ dirty' = TRUE
    /\ elems' = [elems EXCEPT ![e].destroyed = TRUE, ![e].records = {},
                              ![e].notified = @ \ {elems[e].mounts}]
    /\ UNCHANGED <<links, regCount, lastIndex, dom, instances, calls, codec>>

\* variant: the observers are disconnected but the store keeps the element
destroyElementKeepsStore(e) ==
    /\ ops' = ops + 1
    /\ connected' = connected \ elems[e].observers
    /\ dirty' = TRUE
    /\ elems' = [elems EXCEPT ![e].destroyed = TRUE, ![e].records = {},
                              ![e].notified = @ \ {elems[e].mounts}]
    /\ UNCHANGED <<links, regCount, lastIndex, dom, store, instances, calls, codec>>

\* destroyElement: disconnect the observers, splice the element out
destroyElement(e) ==
    /\ ops' = ops + 1
    /\ connected' = connected \ elems[e].observers
    /\ store' = Splice1(store, IndexOf(store, e))
    /\ dirty' = TRUE
    /\ elems' = [elems EXCEPT ![e].destroyed = TRUE, ![e].records = {},
                              ![e].notified = @ \ {elems[e].mounts}]
    /\ UNCHANGED <<links, regCount, lastIndex, dom, instances, calls, codec>>

\* variant: the store is updated but the element keeps its props
setPropsKept(e, props) ==
    /\ ops' = ops + 1
    /\ elems' = [elems EXCEPT ![e].propsSet = TRUE]
    /\ store' = updateComponents(store, e)
    /\ dirty' = TRUE
    /\ UNCHANGED <<links, regCount, lastIndex, dom, instances, connected, calls, codec>>

\* setProps: element.updateProps(props)
setProps(e, props) ==
    /\ ops' = ops + 1
    /\ elems' = [elems EXCEPT ![e].props = props, ![e].propsSet = TRUE]
    /\ store' = updateComponents(store, e)
    /\ dirty' = TRUE
    /\ UNCHANGED <<links, regCount, lastIndex, dom, instances, connected, calls, codec>>

\* variant: toRender is assigned without an update of the store
setToRenderUnnotified(e, toRender) ==
    /\ ops' = ops + 1
    /\ elems' = [elems EXCEPT ![e].toRender = toRender,
            ![e].activations = IF Truthy(toRender) /\ ~Truthy(elems[e].toRender)
                               THEN @ + 1 ELSE @]
    /\ UNCHANGED <<links, regCount, lastIndex, dom, store, dirty, instances,
                   connected, calls, codec>>

\* variant: the store is updated whether or not toRender changes
setToRenderAlways(e, toRender) ==
    /\ ops' = ops + 1
    /\ elems' = [elems EXCEPT ![e].toRender = toRender,
            ![e].activations = IF Truthy(toRender) /\ ~Truthy(elems[e].toRender)
                               THEN @ + 1 ELSE @]
    /\ store' = updateComponents(store, e)
    /\ dirty' = TRUE
    /\ UNCHANGED <<links, regCount, lastIndex, dom, instances, connected, calls, codec>>

\* variant: an element set not to render is taken out of the store
setToRenderRemoving(e, toRender) ==
    /\ ops' = ops + 1
    /\ IF elems[e].toRender # toRender
       THEN /\ elems' = [elems EXCEPT ![e].toRender = toRender,
                    ![e].activations = IF Truthy(toRender) THEN @ + 1 ELSE @]
            /\ store' = IF Truthy(toRender) THEN updateComponents(store, e)
                        ELSE Splice1(store, IndexOf(store, e))
            /\ dirty' = TRUE
       ELSE UNCHANGED <<elems, store, dirty, codec>>
    /\ UNCHANGED <<links, regCount, lastIndex, dom, instances, connected, calls, codec>>

\* setToRender: element.setToRender(toRender)
setToRender(e, toRender) ==
    /\ ops' = ops + 1
    /\ IF elems[e].toRender # toRender
       THEN /\ elems' = [elems EXCEPT ![e].toRender = toRender,
                    ![e].activations = IF Truthy(toRender) THEN @ + 1 ELSE @]
            /\ store' = updateComponents(store, e)
            /\ dirty' = TRUE
       ELSE UNCHANGED <<elems, store, dirty, codec>>
    /\ UNCHANGED <<links, regCount, lastIndex, dom, instances, connected, calls, codec>>

-----------------------------------------------------------------------------
(* The host changes a placeholder; the data observer *)

\* a data observer of the element is observing
DataObserved(e) == \E o \in connected : o.el = e /\ o.kind = "data"

\* MutationRecords: a node stands for its textContent
AttributesRecord ==
    [type |-> "attributes", removedNodes |-> <<>>, addedNodes |-> <<>>]

CharacterDataRecord ==
    [type |-> "characterData", removedNodes |-> <<>>, addedNodes |-> <<>>]

ChildListRecord(removedNodes, addedNodes) ==
    [type |-> "childList", removedNodes |-> removedNodes, addedNodes |-> addedNodes]

\* the text nodes that carry a text: none for the empty text
TextNodes(text) == IF text = "" THEN <<>> ELSE <<text>>

\* the MutationRecord is queued at every data observer that observes the
\* node
queued(node, record) ==
    [e \in 1..Len(elems) |->
        IF elems[e].domElement = node /\ DataObserved(e)
        THEN [elems[e] EXCEPT !.records = @ \cup {record}]
        ELSE elems[e]]

\* the host replaces the text of the placeholder's template.props
setPropsText(node, text) ==
    /\ text # dom[node].propsText
    /\ ops' = ops + 1
    /\ dom' = [dom EXCEPT ![node].propsText = text]
    /\ elems' = queued(node, CharacterDataRecord)
    /\ UNCHANGED <<links, regCount, lastIndex, store, dirty, instances, connected, calls, codec>>

\* the host replaces the children of the placeholder's template.props by
\* a text node with this text, which may be the text it had
replacePropsChildren(node, text) ==
    /\ TextNodes(dom[node].propsText) # <<>> \/ TextNodes(text) # <<>>
    /\ ops' = ops + 1
    /\ dom' = [dom EXCEPT ![node].propsText = text]
    /\ elems' = queued(node, ChildListRecord(TextNodes(dom[node].propsText),
                                             TextNodes(text)))
    /\ UNCHANGED <<links, regCount, lastIndex, store, dirty, instances, connected, calls, codec>>

\* the host sets the placeholder's data-to-render attribute
setToRenderAttribute(node, value) ==
    /\ ops' = ops + 1
    /\ dom' = [dom EXCEPT ![node].toRenderAttr = value]
    /\ elems' = queued(node, AttributesRecord)
    /\ UNCHANGED <<links, regCount, lastIndex, store, dirty, instances, connected, calls, codec>>

\* mutations.find((m) => m.type === 'attributes')
haveAttributesChanged(mutations) ==
    \E m \in mutations : m.type = "attributes"

\* variant: every child-list record counts as a change
haveCharactersChangedAlways(mutations) ==
    \E m \in mutations : m.type \in {"characterData", "childList"}

\* mutations.find(...): a characterData record, or a childList record whose
\* removed and added nodes differ in number or, pairwise, in textContent
haveCharactersChanged(mutations) ==
    \E m \in mutations :
        \/ m.type = "characterData"
        \/ /\ m.type = "childList"
           /\ \/ Len(m.removedNodes) # Len(m.addedNodes)
              \/ \E index \in 1..Len(m.removedNodes) :
                    m.removedNodes[index] # m.addedNodes[index]

\* the callback of the element's data observer, handed the queued records:
\* setToRender(extractToRender(domElement)) on an attribute record, then
\* updateProps(extractProps(domElement)) on a change of the props text
dataObserverCallback(e) ==
    /\ DataObserved(e)
    /\ elems[e].records # {}
    /\ LET toRender == extractToRender(elems[e].domElement)
           rendered == /\ haveAttributesChanged(elems[e].records)
                       /\ elems[e].toRender # toRender
           propsUpdated == haveCharactersChanged(elems[e].records)
           afterToRender ==
               IF rendered
               THEN [elems[e] EXCEPT !.toRender = toRender,
                        !.activations = IF Truthy(toRender) THEN @ + 1 ELSE @]
               ELSE elems[e]
           afterProps ==
               IF propsUpdated
               THEN [afterToRender EXCEPT !.props = extractProps(elems[e].domElement),
                                          !.propsSet = TRUE]
               ELSE afterToRender
       IN  /\ elems' = [elems EXCEPT ![e] = [afterProps EXCEPT !.records = {}]]
           /\ store' = IF rendered \/ propsUpdated
                       THEN updateComponents(store, e) ELSE store
           /\ dirty' = (dirty \/ rendered \/ propsUpdated)
    /\ UNCHANGED <<links, regCount, lastIndex, dom, instances, connected, calls, ops, codec>>

(* The host removes a placeholder; the remove observer *)

\* the generations of the element's remove observers that are observing
RemoveObserved(e) ==
    {o.gen : o \in {x \in connected : x.el = e /\ x.kind = "remove"}}

\* those of them that observe the child list of one of these parents
RemoveObservedAt(e, parents) ==
    {o.gen : o \in {x \in connected : /\ x.el = e /\ x.kind = "remove"
                                      /\ x.parent \in parents}}

\* variant: the remove observers observe the whole document, a removal from
\* any parent queues a record at each of them
removeChildObservedByAll(node) ==
    /\ dom[node].parent # ""
    /\ dom' = [dom EXCEPT ![node].parent = "", ![node].removedFrom = dom[node].parent]
    /\ elems' = [e \in 1..Len(elems) |->
                    [elems[e] EXCEPT !.notified = @ \cup RemoveObserved(e)]]
    /\ UNCHANGED <<links, regCount, lastIndex, store, dirty, instances, connected,
                   calls, ops, codec>>

\* the host removes the node from its parent: a childList record is queued
\* at every remove observer that observes this parent
removeChild(node) ==
    /\ dom[node].parent # ""
    /\ dom' = [dom EXCEPT ![node].parent = "", ![node].removedFrom = dom[node].parent]
    /\ elems' = [e \in 1..Len(elems) |->
                    [elems[e] EXCEPT !.notified =
                        @ \cup RemoveObservedAt(e, {dom[node].parent})]]
    /\ UNCHANGED <<links, regCount, lastIndex, store, dirty, instances, connected,
                   calls, ops, codec>>

\* the host appends the placeholder to another parent: a childList record
\* is queued at every remove observer that observes the parent it leaves or
\* the parent it joins
appendChild(parent, node) ==
    /\ dom[node].parent # ""
    /\ dom[node].parent # parent
    /\ ops' = ops + 1
    /\ dom' = [dom EXCEPT ![node].parent = parent]
    /\ elems' = [e \in 1..Len(elems) |->
                    [elems[e] EXCEPT !.notified =
                        @ \cup RemoveObservedAt(e, {dom[node].parent, parent})]]
    /\ UNCHANGED <<links, regCount, lastIndex, store, dirty, instances, connected,
                   calls, codec>>

\* the callback of a remove observer of the element: destroy when the
\* placeholder is no longer in the document
removeObserverCallback(e, gen) ==
    /\ gen \in RemoveObserved(e)
    /\ gen \in elems[e].notified
    /\ IF contains(elems[e].domElement)
       THEN /\ elems' = [elems EXCEPT ![e].notified = @ \ {gen}]
            /\ UNCHANGED <<connected, store, dirty, codec>>
       ELSE /\ connected' = connected \ elems[e].observers
            /\ store' = Splice1(store, IndexOf(store, e))
            /\ dirty' = TRUE
            /\ elems' = [elems EXCEPT ![e].destroyed = TRUE, ![e].records = {},
                            ![e].notified = @ \ {gen, elems[e].mounts}]
    /\ UNCHANGED <<links, regCount, lastIndex, dom, instances, calls, ops, codec>>

-----------------------------------------------------------------------------
(* The renderer *)

\* createObservers: the observers element.onMount creates
createObservers(e) ==
    (IF elems[e].options.observeParents
     THEN {[el |-> e, kind |-> "remove", gen |-> elems[e].mounts + 1,
            parent |-> dom[elems[e].domElement].parent]} ELSE {})
    \cup
    (IF elems[e].options.observe
     THEN {[el |-> e, kind |-> "data", gen |-> elems[e].mounts + 1,
            parent |-> ""]} ELSE {})

\* those of them that observe something: the remove observer needs a parent
observing(e) ==
    {o \in createObservers(e) :
        o.kind = "remove" => dom[elems[e].domElement].parent # ""}

\* the renderer wants a Portal for every stored element that is to render
Wanted(e) == InSeq(store, e) /\ Truthy(elems[e].toRender)

Mounting(e) == Wanted(e) /\ ~instances[e].live

\* one flush of the renderer after store notifications: a Portal is created
\* (the component constructed with the element's props, element.onMount
\* called) for each wanted element without one, destroyed for each element
\* no longer wanted, and handed the current props otherwise
flush ==
    /\ dirty
    /\ dirty' = FALSE
    /\ instances' = [e \in 1..Len(elems) |->
            IF Mounting(e)
            THEN [live |-> TRUE, constructedWith |-> elems[e].props,
                  props |-> elems[e].props]
            ELSE IF Wanted(e)
            THEN [instances[e] EXCEPT !.props = elems[e].props]
            ELSE [instances[e] EXCEPT !.live = FALSE]]
    /\ elems' = [e \in 1..Len(elems) |->
            IF Mounting(e)
            THEN [elems[e] EXCEPT !.observers = createObservers(e),
                                  !.mounts = elems[e].mounts + 1,
                                  !.mountResolved = elems[e].mountResolved \/ elems[e].waiting]
            ELSE elems[e]]
    /\ connected' = connected \cup UNION {observing(e) : e \in {x \in ElemIds : Mounting(x)}}
    /\ UNCHANGED <<links, regCount, lastIndex, dom, store, calls, ops, codec>>

\* a caller stringifies a property object
callStringify(x) ==
    /\ codec.pc = "idle"
    /\ codec' = [codec EXCEPT !.pc = "stringified", !.x = x, !.text = stringify(x)]
    /\ UNCHANGED <<links, regCount, lastIndex, dom, elems, store, dirty, instances,
                   connected, calls, ops>>

\* and parses the text
callParseProps ==
    /\ codec.pc = "stringified"
    /\ codec' = [codec EXCEPT !.pc = "parsed", !.back = parseProps(codec.text)]
    /\ UNCHANGED <<links, regCount, lastIndex, dom, elems, store, dirty, instances,
                   connected, calls, ops>>

\* a caller encodes a property object
callEncodeProps(x) ==
    /\ codec.pc = "idle"
    /\ codec' = [codec EXCEPT !.pc = "encoded", !.x = x, !.text = encodeProps(x)]
    /\ UNCHANGED <<links, regCount, lastIndex, dom, elems, store, dirty, instances,
                   connected, calls, ops>>

\* and decodes the text
callDecodeProps ==
    /\ codec.pc = "encoded"
    /\ codec' = [codec EXCEPT !.pc = "decoded", !.back = decodeProps(codec.text)]
    /\ UNCHANGED <<links, regCount, lastIndex, dom, elems, store, dirty, instances,
                   connected, calls, ops>>

\* registerComponent is called with RegInputs, in that order
Register ==
    /\ regCount < Len(RegInputs)
    /\ registerComponent(RegInputs[regCount + 1])

\* registerComponent called with any of RegistryInputs, in any order
RegisterAgain ==
    /\ regCount < MaxRegs
    /\ \E r \in RegistryInputs : registerComponent(r)

\* the steps of findComponentByName calls
FindSteps ==
    \/ \E c \in Calls, name \in FindInputs : findComponentByName(c, name)
    \/ \E c \in Calls, ok \in BOOLEAN : findGetterSettles(c, ok)

\* the steps of create calls
CreateSteps ==
    \/ \E c \in Calls, a \in CreateByNameInputs :
            createByName(c, a.node, a.name, a.props, a.toRender, a.options)
    \/ \E c \in Calls, a \in CreateByClassInputs :
            createByClass(c, a.node, a.cls, a.props, a.toRender, a.options)
    \/ \E c \in Calls, ok \in BOOLEAN : createGetterSettles(c, ok)
    \/ \E c \in Calls : createBaseElement(c)
    \/ \E c \in Calls : createEnhance(c)
    \/ \E c \in Calls : createAdd(c)

\* the steps of hydrate calls
HydrateSteps ==
    \/ \E c \in Calls, options \in HydrateInputs : hydrate(c, options)
    \/ \E c \in Calls, i \in 1..Len(DocOrder), ok \in BOOLEAN : parseGetterSettles(c, i, ok)
    \/ \E c \in Calls, i \in 1..Len(DocOrder) : parseElement(c, i)
    \/ \E c \in Calls : hydrateEnhance(c)
    \/ \E c \in Calls : hydrateAdd(c)

\* the element methods a caller invokes, on an element it can hold
MethodCalls ==
    /\ ops < MaxOps
    /\ \E e \in ElemIds :
          /\ Known(e)
          /\ \/ destroyElement(e)
             \/ \E props \in PropsInputs : setProps(e, props)
             \/ \E toRender \in ToRenderInputs : setToRender(e, toRender)

\* a session that mounts through create only
NextCreate ==
    \/ Register
    \/ CreateSteps
    \/ MethodCalls
    \/ flush

SpecCreate == Init /\ [][NextCreate]_vars

\* a session that mounts through hydrate only and calls no element method
NextHydrate ==
    \/ Register
    \/ HydrateSteps
    \/ flush

SpecHydrate == Init /\ [][NextHydrate]_vars

\* the placeholders a data observer is observing
Watched == {elems[e].domElement : e \in {x \in ElemIds : DataObserved(x)}}

\* the host's changes of the placeholders that are watched
HostChanges ==
    /\ ops < MaxOps
    /\ \/ \E node \in Watched, text \in PropsTextInputs : setPropsText(node, text)
       \/ \E node \in Watched, value \in ToRenderAttrInputs :
             setToRenderAttribute(node, value)

\* the delivery of the queued records to the data observers
ObserverCallbacks == \E e \in ElemIds : dataObserverCallback(e)

\* a session that hydrates the document and then changes its placeholders
NextWatch ==
    \/ Register
    \/ HydrateSteps
    \/ HostChanges
    \/ ObserverCallbacks
    \/ flush

SpecWatch == Init /\ [][NextWatch]_vars

\* the steps of create calls with a class
ContentCreateSteps ==
    \/ \E c \in Calls, a \in ContentCreateInputs :
            createByClass(c, a.node, a.cls, a.props, a.toRender, a.options)
    \/ \E c \in Calls : createEnhance(c)
    \/ \E c \in Calls : createAdd(c)

\* the host's changes of the props text of the placeholders that are watched
HostContentChanges ==
    /\ ops < MaxOps
    /\ \/ \E node \in Watched, text \in PropsTextInputs : setPropsText(node, text)
       \/ \E node \in Watched, text \in ContentInputs :
             replacePropsChildren(node, text)

\* a session that creates an element on a placeholder and then changes the
\* placeholder's props text
NextContent ==
    \/ ContentCreateSteps
    \/ HostContentChanges
    \/ ObserverCallbacks
    \/ flush

SpecContent == Init /\ [][NextContent]_vars

\* the calls of the codec functions, each inverse on the text of its function
CodecCalls ==
    \/ codec.pc = "idle" /\ \E x \in PropsObjects : callStringify(x)
    \/ callParseProps
    \/ codec.pc = "idle" /\ \E x \in PropsObjects : callEncodeProps(x)
    \/ callDecodeProps

\* a session that takes one property object through a codec round trip
NextCodec == CodecCalls

SpecCodec == Init /\ [][NextCodec]_vars

\* destroy called on an element a caller can hold
Destroys ==
    /\ ops < MaxOps
    /\ \E e \in ElemIds : Known(e) /\ destroyElement(e)

\* a session that hydrates the document, destroys elements and hydrates again
NextRehydrate ==
    \/ Register
    \/ HydrateSteps
    \/ Destroys
    \/ flush

SpecRehydrate == Init /\ [][NextRehydrate]_vars

\* the placeholders of the elements in the store
Hosting == {elems[store[i]].domElement : i \in 1..Len(store)}

\* the host sets data-to-render on the placeholder of a stored element
HostAttributeChanges ==
    /\ ops < MaxOps
    /\ \E node \in Hosting, value \in HostAttrInputs :
          setToRenderAttribute(node, value)

\* the host removes the placeholder of a stored element from the document
HostRemovals == \E node \in Hosting : removeChild(node)

\* the delivery of the queued records to the remove observers
RemoveCallbacks ==
    \E e \in ElemIds : \E gen \in elems[e].notified : removeObserverCallback(e, gen)

\* a session that hydrates the document, then toggles and removes its
\* placeholders
NextHost ==
    \/ Register
    \/ HydrateSteps
    \/ HostAttributeChanges
    \/ HostRemovals
    \/ ObserverCallbacks
    \/ RemoveCallbacks
    \/ flush

SpecHost == Init /\ [][NextHost]_vars

\* the host moves a placeholder into the container or back
HostMoves ==
    /\ ops < MaxOps
    /\ \E node \in Nodes, parent \in Parents : appendChild(parent, node)

\* the host takes a placeholder or the container out of its parent
HostDetaches == \E node \in Nodes \cup Containers : removeChild(node)

\* a session that creates an element on a placeholder while the host moves
\* and removes the placeholders and the container
NextMove ==
    \/ ContentCreateSteps
    \/ HostMoves
    \/ HostDetaches
    \/ RemoveCallbacks
    \/ flush

SpecMove == Init /\ [][NextMove]_vars


\* a session of registrations and lookups
NextRegistry ==
    \/ RegisterAgain
    \/ FindSteps

SpecRegistry == Init /\ [][NextRegistry]_vars

\* the hydrate session, in which every resolver settles, every continuation
\* of a hydrate call runs and the renderer flushes every store notification
HydrateProgress ==
    \/ \E c \in Calls, i \in 1..Len(DocOrder), ok \in BOOLEAN : parseGetterSettles(c, i, ok)
    \/ \E c \in Calls, i \in 1..Len(DocOrder) : parseElement(c, i)
    \/ \E c \in Calls : hydrateEnhance(c)
    \/ \E c \in Calls : hydrateAdd(c)

SpecHydrateLive ==
    /\ Init /\ [][NextHydrate]_vars
    /\ WF_vars(HydrateProgress)
    /\ WF_vars(flush)

\* a session in which anything is called
Next ==
    \/ Register
    \/ RegisterAgain
    \/ FindSteps
    \/ CreateSteps
    \/ HydrateSteps
    \/ MethodCalls
    \/ HostChanges
    \/ HostContentChanges
    \/ HostAttributeChanges
    \/ HostRemovals
    \/ HostMoves
    \/ HostDetaches
    \/ ObserverCallbacks
    \/ RemoveCallbacks
    \/ CodecCalls
    \/ flush

Spec == Init /\ [][Next]_vars

-----------------------------------------------------------------------------
(* Properties *)

\* the elements enhanceBaseElement has turned into SvelteElements
Managed == {e \in ElemIds : elems[e].enhanced}

\* the node carries the index of an element that is in the store
ClaimedNode(node) ==
    /\ dom[node].indexAttr # <<>>
    /\ \E i \in 1..Len(store) : elems[store[i]].index = ParseInt(dom[node].indexAttr)

\* C1: calling destroy twice on the same element never throws and the second
\* call is a no-op: a destroy of an element destroy was already called on
\* leaves the store as it is, whatever else the store holds.
C1_SecondDestroyKeepsStore ==
    [][\A e \in ElemIds :
        (elems[e].destroyed /\ destroyElement(e)) => store' = store]_vars

\* C2: with every placeholder resolved and no destroy, the first hydrate
\* registers exactly one element per placeholder, and a hydrate over a
\* subtree that is already registered adds nothing and leaves the store as
\* it is.
AllParsed(c) ==
    \A i \in 1..Len(calls[c].items) : calls[c].items[i].st = "parsed"

OnePerPlaceholder(components) ==
    /\ Len(components) = Len(Placeholders(DocOrder))
    /\ \A k \in 1..Len(Placeholders(DocOrder)) :
          \E i \in 1..Len(components) :
              elems[components[i]].domElement = Placeholders(DocOrder)[k]

C2_HydrateTwice ==
    [][\A c \in Calls :
        (hydrateAdd(c) /\ AllParsed(c) /\ \A e \in ElemIds : ~elems[e].destroyed)
        => /\ OnePerPlaceholder(store')
           /\ OnePerPlaceholder(store) => store' = store
           /\ store = <<>> => store' = calls[c].result]_vars

\* a second hydrate ran after the first had registered both placeholders: it
\* created nothing and the store still holds the two elements of the first
C2_Witness ==
    /\ calls[1].kind = "hydrate" /\ calls[1].pc = "h_wait"
    /\ calls[2].kind = "hydrate" /\ calls[2].pc = "h_wait"
    /\ AllParsed(1) /\ AllParsed(2)
    /\ calls[2].result = <<>>
    /\ store = calls[1].result /\ Len(store) = 2

\* C3: no two SvelteElements ever registered in the session share an index:
\* the index of a destroyed element is not given to a new element.
C3_IndexNeverShared ==
    \A e1 \in Managed, e2 \in Managed :
        (e1 # e2 /\ elems[e1].added /\ elems[e2].added)
        => elems[e1].index # elems[e2].index

\* C4: a create call on a node whose index belongs to an element in the
\* store changes neither the store nor any element, node or observer, and
\* is rejected by enhanceBaseElement's check.
C4_CreateOnClaimedNodeRejects ==
    [][\A c \in Calls :
        ( /\ calls'[c] # calls[c]
          /\ calls'[c].kind = "create"
          /\ calls[c].pc \in {"idle", "c_getter", "c_base", "c_enhance"}
          /\ ClaimedNode(calls'[c].node) )
        => /\ store' = store
           /\ dom' = dom
           /\ lastIndex' = lastIndex
           /\ connected' = connected
           /\ instances' = instances \/ instances' = Append(instances, NoInstance)
           /\ \A e \in ElemIds : elems'[e] = elems[e]
           /\ calls'[c].pc \in {"c_getter", "c_base", "c_enhance", "rejected"}
           /\ calls[c].pc = "c_enhance" => calls'[c].pc = "rejected"]_vars

\* a create was rejected because another element holds its node's index
C4_Witness ==
    \E c \in Calls :
        /\ calls[c].kind = "create" /\ Rejected(c)
        /\ calls[c].el # 0
        /\ \E i \in 1..Len(store) :
              /\ store[i] # calls[c].el
              /\ elems[store[i]].index = elems[calls[c].el].index
              /\ elems[store[i]].mounts > 0

\* C5: of two create calls in flight for the same node at most one element
\* for that node is stored, and the promise of the other is not resolved
\* with an element that was never registered.
C5_LoserNotResolved ==
    /\ \A i \in 1..Len(store), j \in 1..Len(store) :
          elems[store[i]].domElement = elems[store[j]].domElement => i = j
    /\ \A c \in Calls :
          (calls[c].kind = "create" /\ Resolved(c) /\ ops = 0)
          => InSeq(store, calls[c].el)

\* C6: when every resolver settles and the renderer mounts every stored
\* element that is to render, the promise of every hydrate call settles,
\* also when hydrate calls over the same subtree are in flight together.
C6_HydrateSettles ==
    \A c \in Calls :
        (calls[c].kind = "hydrate") ~> (Resolved(c) \/ Rejected(c))

\* C7: a create call whose name is not linked, or whose getter rejects, is
\* rejected, adds nothing to the store and writes no index on the node.
ResolutionFails(c) ==
    \/ /\ calls[c].pc = "idle"
       /\ calls'[c].name # ""
       /\ ~MustAwaitGetter(calls'[c].name)
       /\ FoundNow(calls'[c].name) = Undefined
    \/ calls[c].pc = "c_base" /\ calls[c].found = Undefined
    \/ calls[c].pc = "c_getter" /\ calls'[c].found = Undefined

HasBrokenPlaceholder(c) ==
    /\ calls[c].kind = "hydrate"
    /\ calls[c].pc = "h_add"
    /\ \E i \in 1..Len(calls[c].items) : calls[c].items[i].st = "rejected"

ResolvedPlaceholdersRegistered(c) ==
    \A i \in 1..Len(calls[c].items) :
        calls[c].items[i].st = "parsed" =>
            /\ \E j \in 1..Len(store) :
                  elems[store[j]].index = elems[calls[c].items[i].el].index
            /\ InSeq(calls[c].result, calls[c].items[i].el)
                  => InSeq(store, calls[c].items[i].el)

C8_BrokenPlaceholderIsolated ==
    \A c \in Calls :
        HasBrokenPlaceholder(c)
        ~> (Resolved(c) /\ ~Rejected(c) /\ ResolvedPlaceholdersRegistered(c))

\* C9: an element built with toRender false is resolved without an
\* instance, is never instantiated more often than setToRender(true) took
\* effect on it, and once that call has been flushed it has its instance.
C9_DeferredInstantiation ==
    \A e \in Managed :
        ~Truthy(elems[e].born) =>
            /\ elems[e].mounts <= elems[e].activations
            /\ elems[e].activations = 0 => ~instances[e].live
            /\ (Known(e) /\ ~dirty /\ Truthy(elems[e].toRender) /\ ~elems[e].destroyed)
                  => instances[e].live

\* C10: the promise of a create call with toRender true is resolved by the
\* mount of its element: at that moment the element is in the store, its
\* instance is live and was constructed with the element's props, which are
\* the props given to create unless updateProps replaced them.
C10_ResolvedOnMount ==
    [][\A c \in Calls :
        ( /\ calls[c].kind = "create"
          /\ calls'[c].kind = "create"
          /\ Truthy(calls'[c].toRender)
          /\ ~Resolved(c)
          /\ Resolved(c)' )
        => LET e == calls'[c].el
           IN  /\ InSeq(store', e)
               /\ instances'[e].live
               /\ ~instances[e].live
               /\ elems'[e].mounts = 1
               /\ instances'[e].constructedWith = elems'[e].props
               /\ ~elems'[e].propsSet => elems'[e].props = calls'[c].props]_vars

\* a create by name with toRender true is resolved, its element stored and
\* its instance live, constructed with the props given to create
C10_Witness ==
    \E c \in Calls :
        /\ calls[c].kind = "create" /\ calls[c].name = "hello"
        /\ Truthy(calls[c].toRender)
        /\ Resolved(c)
        /\ InSeq(store, calls[c].el)
        /\ instances[calls[c].el].live
        /\ instances[calls[c].el].constructedWith = calls[c].props

\* C11: whenever no store notification awaits the renderer, every element in
\* the store has a live instance if and only if its toRender is true.
C11_InstanceIffToRender ==
    ~dirty =>
        \A i \in 1..Len(store) :
            instances[store[i]].live <=> elems[store[i]].toRender = "true"

\* at rest, one stored element is rendered and has its instance while
\* another is not to render and has none
C11_Witness ==
    /\ ~dirty
    /\ \E i \in 1..Len(store) :
          instances[store[i]].live /\ elems[store[i]].toRender = "true"
    /\ \E i \in 1..Len(store) :
          ~instances[store[i]].live /\ elems[store[i]].toRender = "false"

\* C12: a setToRender call with a value other than the element's toRender
\* sets toRender to it and updates the store once, so that a second call
\* with this value finds it unchanged; a setToRender call with the element's
\* current toRender changes no element and does not update the store.
C12_SetToRenderOnce ==
    [][\A e \in ElemIds, v \in ToRenderInputs :
        setToRender(e, v) =>
            IF elems[e].toRender = v
            THEN elems' = elems /\ store' = store /\ dirty' = dirty
            ELSE /\ elems'[e].toRender = v
                 /\ \A x \in ElemIds : x # e => elems'[x] = elems[x]
                 /\ store' = store
                 /\ dirty' = TRUE]_vars

\* the only element there is was built to render and had setToRender called
\* on it twice, of which one call updated the store: it is not to render
\* and was never activated again
C12_Witness ==
    /\ Len(elems) = 1 /\ ops = 2
    /\ ~elems[1].propsSet /\ ~elems[1].destroyed
    /\ elems[1].born = "true" /\ elems[1].toRender = "false"
    /\ elems[1].activations = 1
    /\ InSeq(store, 1)

\* C13: setToRender(false) on a rendered element leaves the store and the
\* element's index, props and node as they are, only toRender changing; a
\* later setToRender(true) leaves it stored under the same index, and the
\* renderer then gives it an instance again.
C13_DeactivateKeepsElement ==
    [][\A e \in ElemIds :
        /\ ( /\ setToRender(e, "false")
             /\ InSeq(store, e) /\ Truthy(elems[e].toRender) )
           => /\ store' = store
              /\ elems'[e].index = elems[e].index
              /\ elems'[e].props = elems[e].props
              /\ elems'[e].domElement = elems[e].domElement
              /\ elems'[e].toRender = "false"
        /\ ( /\ setToRender(e, "true")
             /\ InSeq(store, e) /\ ~Truthy(elems[e].toRender) )
           => /\ store' = store
              /\ elems'[e].index = elems[e].index
              /\ elems'[e].props = elems[e].props
              /\ Wanted(e)'
        /\ (flush /\ Wanted(e))
           => /\ instances'[e].live
              /\ InSeq(store', e)
              /\ elems'[e].index = elems[e].index]_vars

\* an element was rendered, set not to render and set to render again: it is
\* stored, has its second instance and the index its node carries
C13_Witness ==
    \E e \in ElemIds :
        /\ InSeq(store, e) /\ instances[e].live
        /\ elems[e].born = "true"
        /\ elems[e].activations = 2 /\ elems[e].mounts = 2
        /\ IndexToString(elems[e].index) = dom[elems[e].domElement].indexAttr

\* C14: updateProps(p) makes p the element's props, whatever they were,
\* changes nothing else of the element and updates the store; the renderer
\* then hands the element's props to its live instance.
C14_UpdatePropsReplaces ==
    [][\A e \in ElemIds :
        /\ \A p \in PropsInputs :
              setProps(e, p)
              => /\ elems'[e] = [elems[e] EXCEPT !.props = p, !.propsSet = TRUE]
                 /\ store' = store
                 /\ dirty' = TRUE
        /\ (flush /\ Wanted(e) /\ instances[e].live)
           => /\ instances'[e].live
              /\ instances'[e].props = elems[e].props
              /\ instances'[e].constructedWith = instances[e].constructedWith]_vars

\* a rendered element was given new props: its instance, constructed with
\* the props of create, now holds the new ones
C14_Witness ==
    \E e \in ElemIds :
        /\ ~dirty /\ InSeq(store, e) /\ instances[e].live
        /\ elems[e].propsSet /\ elems[e].props = "moon"
        /\ instances[e].constructedWith = "world"
        /\ instances[e].props = "moon"

\* C15: once the resolver of a lazily registered name has resolved, every
\* later findComponentByName for the name returns the cached class without
\* invoking the resolver, whatever registerComponent, create or hydrate
\* calls follow: in the next state a lookup still needs no getter and finds
\* that class.
C15_ResolvedNameStaysCached ==
    [][\A n \in LinkNames :
        (links[n].hasGetter /\ links[n].svelteComponent # Undefined)
        => /\ ~MustAwaitGetter(n)'
           /\ FoundNow(n)' = links[n].svelteComponent]_vars

\* the awaits of a getter of the name's current link that are pending
PendingGetters(n) ==
    {<<c, 0>> : c \in {d \in Calls : /\ calls[d].pc \in {"c_getter", "f_getter"}
                                     /\ calls[d].name = n
                                     /\ calls[d].link = links[n].id}}
    \cup
    {x \in Calls \X (1..Len(DocOrder)) :
        /\ x[2] \in 1..Len(calls[x[1]].items)
        /\ calls[x[1]].items[x[2]].st = "getter"
        /\ calls[x[1]].items[x[2]].name = n
        /\ calls[x[1]].items[x[2]].link = links[n].id}

\* C16: findComponentByName calls in flight together for one lazy name not
\* yet resolved invoke its resolver at most once (at most one await of the
\* getter is pending), and those that have returned hold the same class.
C16_SingleFlight ==
    \A n \in LinkNames :
        /\ Cardinality(PendingGetters(n)) <= 1
        /\ \A c \in Calls, d \in Calls :
              ( /\ calls[c].kind = "find" /\ calls[d].kind = "find"
                /\ calls[c].pc = "resolved" /\ calls[d].pc = "resolved"
                /\ calls[c].name = n /\ calls[d].name = n
                /\ calls[c].link = calls[d].link )
              => calls[c].found = calls[d].found

\* C17: the first registration of a name wins: a registerComponent call for
\* a name that is registered does not change the class lookups of the name
\* lead to.
C17_FirstRegistrationWins ==
    [][\A n \in LinkNames :
        links[n].id # 0 => links'[n].target = links[n].target]_vars

\* String.prototype.toLowerCase on the names in use
ToLowerCase(name) == IF name = "HELLO" THEN "hello" ELSE name

\* C18: findComponentByName matches names whatever their letter case: a
\* lookup of a name returns the class registered under the name's lower
\* case spelling.
C18_CaseInsensitiveLookup ==
    [][\A c \in Calls, name \in FindInputs :
        ( /\ findComponentByName(c, name)
          /\ links[ToLowerCase(name)].svelteComponent # Undefined )
        => /\ calls'[c].pc = "resolved"
           /\ calls'[c].found = links[ToLowerCase(name)].svelteComponent]_vars

\* the reverse lookup agrees with the registry: a name holding a class leads
\* back to the name, a getter not yet resolved does not
ReverseLookupRight ==
    \A n \in LinkNames :
        /\ (links[n].id # 0 /\ ~links[n].hasGetter)
           => findRegisteredComponentNameByClass(links[n].svelteComponent) = n
        /\ (links[n].hasGetter /\ links[n].svelteComponent = Undefined)
           => findRegisteredComponentNameByClass(links[n].target) = Undefined

C20_MalformedPropsSkipped ==
    [][\A e \in ElemIds :
        ( /\ dataObserverCallback(e)
          /\ instances[e].live
          /\ CharacterDataRecord \in elems[e].records
          /\ dom[elems[e].domElement].propsText = "{name: hello}" )
        => elems'[e].props = elems[e].props]_vars

\* C21: a data-to-render attribute that is no JSON boolean leaves the
\* element with a boolean toRender: the value it had when the data observer
\* re-reads the attribute, and true when parseElement reads it in hydrate.
C21_MalformedToRenderKeepsBoolean ==
    [][/\ \A e \in ElemIds :
             ( /\ dataObserverCallback(e)
               /\ haveAttributesChanged(elems[e].records)
               /\ dom[elems[e].domElement].toRenderAttr = "yes" )
             => /\ elems'[e].toRender = elems[e].toRender
                /\ elems'[e].toRender \in {"true", "false"}
       /\ \A c \in Calls, i \in 1..Len(DocOrder) :
             ( /\ parseElement(c, i)
               /\ Len(elems') = Len(elems) + 1
               /\ dom[calls[c].items[i].node].toRenderAttr = "yes" )
             => elems'[Len(elems')].toRender = "true"]_vars

\* C22: when the placeholder of a stored element with observeParents is
\* removed from its parent, a remove observer of the element is notified
\* and its callback destroys the element; no remove observer ever runs for
\* an element whose options disable observeParents.
C22_RemovalDestroys ==
    [][\A e \in ElemIds :
        /\ ( /\ removeChild(elems[e].domElement)
             /\ InSeq(store, e)
             /\ elems[e].options.observeParents )
           => elems'[e].notified # {}
        /\ \A gen \in elems[e].notified :
              removeObserverCallback(e, gen)
              => /\ elems[e].options.observeParents
                 /\ ~contains(elems[e].domElement) => elems'[e].destroyed]_vars

\* C23: for every stored element whose options enable observe, with or
\* without a live instance, a change of the placeholder's data-to-render
\* attribute reaches the element's data observer, whose callback sets
\* toRender to the value re-parsed from the attribute.
C23_AttributeChangeObserved ==
    [][\A e \in ElemIds :
        /\ \A value \in HostAttrInputs :
              ( /\ setToRenderAttribute(elems[e].domElement, value)
                /\ InSeq(store, e)
                /\ elems[e].options.observe )
              => AttributesRecord \in elems'[e].records
        /\ ( /\ dataObserverCallback(e)
             /\ haveAttributesChanged(elems[e].records) )
           => elems'[e].toRender = extractToRender(elems[e].domElement)]_vars

\* C29: once destroy has been called on an element, none of the observers
\* ever created for it is connected.
C29_DestroyDisconnectsAll ==
    \A e \in ElemIds :
        elems[e].destroyed => \A o \in connected : o.el # e

\* a record that tells of a change of the props text: character data, or a
\* child list whose removed and added nodes differ in text
ContentDiffers(m) ==
    \/ m.type = "characterData"
    \/ m.type = "childList" /\ m.removedNodes # m.addedNodes

\* C24: a callback of the data observer whose records hold no attribute
\* change calls updateProps (the props become those re-parsed from the
\* placeholder and the store notifies) exactly when a record is a
\* character-data change or a child-list change whose removed and added
\* nodes differ in text; on child-list records with identical text alone it
\* changes neither the props nor the store.
C24_UpdatePropsOnTextChange ==
    [][\A e \in ElemIds :
        ( /\ dataObserverCallback(e)
          /\ ~haveAttributesChanged(elems[e].records) )
        => IF \E m \in elems[e].records : ContentDiffers(m)
           THEN /\ elems'[e].props = extractProps(elems[e].domElement)
                /\ dirty'
           ELSE /\ elems'[e].props = elems[e].props
                /\ store' = store
                /\ dirty' = dirty]_vars

\* the host has replaced the template's text node by one with the same text,
\* the callback has run, and the props and the store are as they were
C24_Witness ==
    \E e \in ElemIds :
        /\ ops = 1
        /\ DataObserved(e)
        /\ elems[e].records = {}
        /\ dom[elems[e].domElement].propsText = "{\"name\":\"world\"}"
        /\ elems[e].props = "world"
        /\ ~elems[e].propsSet
        /\ ~dirty

\* C25: for every property object x, parseProps(stringify(x)) and
\* decodeProps(encodeProps(x)) return a value equal to x, member by member.
C25_CodecRoundTrip ==
    codec.pc \in {"parsed", "decoded"} => codec.back = Returned(codec.x)

\* an object with a string of a quote and a percent sign went through
\* encodeProps and decodeProps
C25_Witness ==
    /\ codec.pc = "decoded"
    /\ \E i \in 1..Len(codec.x) : codec.x[i].s = <<"\"", "%">>
    /\ Len(codec.x) > 1
    /\ codec.back.ok

\* C26: destroy called on a stored element that has no live instance yet
\* removes it from the store, and from then on the element is never in the
\* store and never has a live instance.
C26_DestroyBeforeMount ==
    [][\A e \in ElemIds :
        /\ ( /\ destroyElement(e)
             /\ InSeq(store, e)
             /\ ~instances[e].live )
           => /\ elems'[e].destroyed
              /\ ~InSeq(store', e)
              /\ ~instances'[e].live
        /\ ( /\ elems[e].destroyed
             /\ ~InSeq(store, e)
             /\ ~instances[e].live )
           => /\ ~InSeq(store', e)
              /\ ~instances'[e].live]_vars

\* an element to render was destroyed after it was added and before its
\* Portal mounted; the renderer has flushed since and mounted nothing
C26_Witness ==
    \E e \in ElemIds :
        /\ elems[e].destroyed
        /\ elems[e].added
        /\ Truthy(elems[e].toRender)
        /\ elems[e].mounts = 0
        /\ ~dirty
        /\ ~InSeq(store, e)
        /\ ~instances[e].live

\* the position of a node in document order
DocPos(node) == CHOOSE i \in 1..Len(DocOrder) : DocOrder[i] = node

\* C27: the array a hydrate call returns lists its elements in the document
\* order of their placeholders, in whatever order the getters settled and
\* parseElement built the elements.
C27_HydrateResultInDocumentOrder ==
    \A c \in Calls :
        (calls[c].kind = "hydrate" /\ calls[c].pc \in {"h_add", "h_wait", "resolved"})
        => \A i, j \in 1..Len(calls[c].result) :
              i < j => DocPos(elems[calls[c].result[i]].domElement)
                         < DocPos(elems[calls[c].result[j]].domElement)

\* a hydrate call has returned two elements of which the one of the later
\* placeholder was built first
C27_Witness ==
    \E c \in Calls :
        /\ calls[c].kind = "hydrate"
        /\ Resolved(c)
        /\ Len(calls[c].result) = 2
        /\ calls[c].result[1] > calls[c].result[2]

\* C28: the store never holds two elements with the same index.
C28_StoreIndicesDistinct ==
    \A i, j \in 1..Len(store) :
        IndexToString(elems[store[i]].index) = IndexToString(elems[store[j]].index)
        => i = j

\* two create calls built elements with one index; both were enhanced, one
\* is in the store and the other was dropped by addComponents
C28_Witness ==
    \E c \in Calls, x \in ElemIds :
        /\ calls[c].kind = "create" /\ calls[c].pc = "c_wait"
        /\ calls[c].el # x
        /\ elems[calls[c].el].enhanced /\ elems[x].enhanced
        /\ elems[calls[c].el].index = elems[x].index
        /\ InSeq(store, x)
        /\ ~InSeq(store, calls[c].el)
        /\ ~elems[calls[c].el].destroyed

\* C30: a hydrate call enhances and stores no element for a placeholder that
\* carried a svelte-element-index attribute when the call scanned the
\* document, also when the element that gave it the index has been destroyed.
C30_IndexedPlaceholderSkipped ==
    [][\A c \in Calls :
        hydrateAdd(c) =>
            \A i \in 1..Len(calls[c].items) :
                calls[c].items[i].indexed =>
                    /\ ~InSeq(calls[c].result, calls[c].items[i].el)
                    /\ ~InSeq(store', calls[c].items[i].el)]_vars

\* C31: a hydrate call that created elements updates the store once, in the
\* step that appends all of them; no other step of the call touches the
\* store.
C31_HydrateAddsInOneUpdate ==
    [][\A c \in Calls :
        /\ (hydrateAdd(c) /\ calls[c].result # <<>>)
           => store' = store \o calls[c].result
        /\ ( \/ \E options \in HydrateInputs : hydrate(c, options)
             \/ \E i \in 1..Len(DocOrder), ok \in BOOLEAN : parseGetterSettles(c, i, ok)
             \/ \E i \in 1..Len(DocOrder) : parseElement(c, i)
             \/ hydrateEnhance(c) )
           => store' = store]_vars

\* C32: once a node carries a svelte-element-index attribute, no step
\* changes the attribute's value.
C32_IndexAttributeStable ==
    [][\A node \in Nodes :
        dom[node].indexAttr # <<>> => dom'[node].indexAttr = dom[node].indexAttr]_vars

\* a node whose first element was destroyed has had a second element built
\* on it, which read the index the node carried
C32_Witness ==
    \E x, y \in ElemIds :
        /\ x < y
        /\ elems[x].domElement = elems[y].domElement
        /\ elems[x].destroyed
        /\ elems[y].enhanced
        /\ IndexToString(elems[x].index) = dom[elems[y].domElement].indexAttr
        /\ IndexToString(elems[y].index) = dom[elems[y].domElement].indexAttr

\* the element's onMount has run and its observers are attached
Mounted(e) ==
    /\ elems[e].mounts >= 1
    /\ elems[e].observers # {}
    /\ DataObserved(e)

\* C33: the promise of a hydrate call that has added its elements is
\* resolved exactly when every returned element that is to render has
\* mounted, its observers attached; the returned elements that are not to
\* render do not hold it back.
C33_HydrateResolvesOnMounts ==
    \A c \in Calls :
        (calls[c].kind = "hydrate" /\ calls[c].pc = "h_wait")
        => ( Resolved(c)
             <=> \A i \in 1..Len(calls[c].result) :
                    Truthy(elems[calls[c].result[i]].toRender)
                    => Mounted(calls[c].result[i]) )

\* a hydrate call is resolved that returned an element which mounted and an
\* element not to render which has no instance
C33_Witness ==
    \E c \in Calls :
        /\ calls[c].kind = "hydrate" /\ calls[c].pc = "h_wait"
        /\ Resolved(c)
        /\ \E i \in 1..Len(calls[c].result) :
              /\ Truthy(elems[calls[c].result[i]].toRender)
              /\ Mounted(calls[c].result[i])
              /\ instances[calls[c].result[i]].live
        /\ \E i \in 1..Len(calls[c].result) :
              /\ ~Truthy(elems[calls[c].result[i]].toRender)
              /\ elems[calls[c].result[i]].mounts = 0
              /\ ~instances[calls[c].result[i]].live

\* C34: destroy of an element that is in the store removes that element and
\* no other: the other elements stay in the store in their order, with their
\* props and toRender.
C34_DestroyRemovesOnlyItself ==
    [][\A e \in ElemIds :
        (destroyElement(e) /\ InSeq(store, e))
        => /\ store' = SelectSeq(store, LAMBDA x : x # e)
           /\ \A x \in ElemIds :
                 x # e => /\ elems'[x].props = elems[x].props
                          /\ elems'[x].toRender = elems[x].toRender]_vars

\* of two stored elements the first was destroyed, once: the store holds the
\* second
C34_Witness ==
    \E e, x \in ElemIds :
        /\ e < x
        /\ ops = 1
        /\ elems[e].destroyed /\ elems[e].added
        /\ ~elems[x].destroyed /\ elems[x].added
        /\ store = <<x>>

\* C35: updateProps and setToRender called on an element that is not in the
\* store leave the store and every other element as they are: the element is
\* not stored again.
C35_MethodsOnRemovedElement ==
    [][\A e \in ElemIds :
        ( /\ ~InSeq(store, e)
          /\ \/ \E p \in PropsInputs : setProps(e, p)
             \/ \E v \in ToRenderInputs : setToRender(e, v) )
        => /\ store' = store
           /\ \A x \in ElemIds : x # e => elems'[x] = elems[x]]_vars

\* a destroyed element was given new props; the renderer has flushed since
\* and the element is neither stored nor instantiated
C35_Witness ==
    \E e \in ElemIds :
        /\ ops = 2
        /\ elems[e].destroyed
        /\ elems[e].propsSet /\ elems[e].props = "moon"
        /\ instances[e].props # "moon"
        /\ ~dirty
        /\ ~InSeq(store, e)
        /\ ~instances[e].live

\* C36: as long as the getter of one placeholder of a hydrate call has not
\* settled, no element of that call is enhanced or in the store.
C36_NothingAddedBeforeAllSettled ==
    \A c \in Calls :
        ( /\ calls[c].kind = "hydrate"
          /\ \E i \in 1..Len(calls[c].items) : calls[c].items[i].st = "getter" )
        => \A j \in 1..Len(calls[c].items) :
              calls[c].items[j].el # 0
              => /\ ~InSeq(store, calls[c].items[j].el)
                 /\ ~elems[calls[c].items[j].el].enhanced

\* parseElement has built the element of one placeholder of a hydrate call
\* while the getter of another is pending; the element is not stored
C36_Witness ==
    \E c \in Calls :
        /\ calls[c].kind = "hydrate"
        /\ \E i \in 1..Len(calls[c].items) : calls[c].items[i].st = "getter"
        /\ \E j \in 1..Len(calls[c].items) :
              /\ calls[c].items[j].st = "parsed"
              /\ ~InSeq(store, calls[c].items[j].el)

\* C37: in hydrate, the step in which a placeholder fails, its name not
\* linked or its getter rejecting, writes no index on any node and changes
\* neither the store nor any element; a parseElement that later finds the
\* component of a placeholder without index gives it a new element under the
\* next index.
C37_FailedPlaceholderLeftClean ==
    [][\A c \in Calls, i \in 1..Len(DocOrder) :
        /\ ( \/ parseElement(c, i) /\ calls[c].items[i].comp = Undefined
             \/ parseGetterSettles(c, i, FALSE) )
           => /\ calls'[c].items[i].st = "rejected"
              /\ dom' = dom
              /\ lastIndex' = lastIndex
              /\ store' = store
              /\ elems' = elems
        /\ ( /\ parseElement(c, i)
             /\ calls[c].items[i].comp # Undefined
             /\ dom[calls[c].items[i].node].indexAttr = <<>> )
           => /\ Len(elems') = Len(elems) + 1
              /\ elems'[Len(elems')].domElement = calls[c].items[i].node
              /\ elems'[Len(elems')].index = lastIndex + 1
              /\ dom'[calls[c].items[i].node].indexAttr = IndexToString(lastIndex + 1)]_vars

\* the placeholder failed in a first hydrate, its name not linked; a second
\* hydrate, after the name was linked, has stored and mounted its element
C37_Witness ==
    \E c, d \in Calls, i \in 1..Len(DocOrder) :
        /\ calls[c].kind = "hydrate" /\ calls[d].kind = "hydrate"
        /\ i \in 1..Len(calls[c].items) /\ i \in 1..Len(calls[d].items)
        /\ calls[c].items[i].st = "rejected"
        /\ calls[d].items[i].st = "parsed"
        /\ ~calls[d].items[i].indexed
        /\ InSeq(store, calls[d].items[i].el)
        /\ instances[calls[d].items[i].el].live
        /\ elems[calls[d].items[i].el].mounts = 1

\* C38: when the getter awaited by a findComponentByName call rejects, the
\* call is rejected and the links are left as they are; a lookup of a name
\* whose link has a getter and no class awaits the getter again.
C38_RejectedGetterNotCached ==
    [][\A c \in Calls :
        /\ findGetterSettles(c, FALSE)
           => /\ calls'[c].pc = "rejected"
              /\ calls'[c].found = Undefined
              /\ links' = links
        /\ \A name \in FindInputs :
              ( /\ findComponentByName(c, name)
                /\ links[name].hasGetter
                /\ links[name].svelteComponent = Undefined )
              => /\ calls'[c].pc = "f_getter"
                 /\ calls'[c].getter = links[name].target]_vars

\* a lookup of the lazy name was rejected by its getter, and another lookup
\* of the name, awaiting the getter of the same link, has resolved
C38_Witness ==
    \E c, d \in Calls :
        /\ calls[c].kind = "find" /\ calls[c].name = "lazy"
        /\ calls[c].pc = "rejected"
        /\ calls[d].kind = "find" /\ calls[d].name = "lazy"
        /\ calls[d].pc = "resolved"
        /\ calls[d].link = calls[c].link
        /\ calls[d].getter # Undefined
        /\ calls[d].found = calls[d].getter

\* the parents whose child list a remove observer of the element was
\* created on, at mount
ObservedParents(e) == {o.parent : o \in {x \in elems[e].observers : x.kind = "remove"}}

\* the placeholder of the element is outside the document and was not taken
\* out of the parent the element's remove observer observes: it was removed
\* from a parent it had been moved to, or it is still in the observed
\* parent and that parent was detached
DetachedElsewhere(e) ==
    LET n == elems[e].domElement
    IN  /\ ObservedParents(e) # {}
        /\ \A p \in ObservedParents(e) :
              \/ dom[n].parent = "" /\ dom[n].removedFrom # p
              \/ dom[n].parent = p /\ p \in Containers /\ dom[p].parent = ""

\* C39 (as stated): an element whose placeholder left the document by the
\* detaching of an ancestor, or by its removal from a parent it had been
\* moved to, is not destroyed and is in the store.
C39_DetachedElsewhereNeverDestroyed ==
    \A e \in ElemIds :
        DetachedElsewhere(e) => ~elems[e].destroyed /\ InSeq(store, e)

\* C39 (amended): a record is queued at a remove observer only by a change
\* of the child list of the parent the placeholder had when the element
\* mounted; the detaching of an ancestor and the removal of the placeholder
\* from a parent it was moved to queue nothing, destroy nothing and leave
\* the store as it is; the callback destroys the element exactly when, at
\* the delivery of a queued record, the placeholder is outside the document.
C39_WatcherReactsToMountParentOnly ==
    [][\A e \in ElemIds :
        /\ \A gen \in elems'[e].notified \ elems[e].notified :
              \E o \in connected, node \in Nodes \cup Containers :
                  /\ o.el = e /\ o.kind = "remove" /\ o.gen = gen
                  /\ dom'[node].parent # dom[node].parent
                  /\ o.parent \in {dom[node].parent, dom'[node].parent}
        /\ \A node \in Nodes \cup Containers :
              ( /\ removeChild(node)
                /\ dom[node].parent \notin ObservedParents(e) )
              => /\ elems'[e].notified = elems[e].notified
                 /\ elems'[e].destroyed = elems[e].destroyed
                 /\ store' = store
        /\ \A gen \in RemoveObserved(e) :
              removeObserverCallback(e, gen)
              => /\ elems'[e].destroyed = ~contains(elems[e].domElement)
                 /\ InSeq(store', e) = contains(elems[e].domElement)]_vars

\* the element mounted while its placeholder was a child of the body; the
\* placeholder was moved into the container, the record of the move was
\* delivered, and the placeholder was then removed from the container: no
\* record is queued, the element is not destroyed and is in the store
C39_Witness ==
    \E e \in ElemIds :
        /\ ObservedParents(e) = {"body"}
        /\ RemoveObserved(e) # {}
        /\ dom[elems[e].domElement].parent = ""
        /\ dom[elems[e].domElement].removedFrom = "aside"
        /\ elems[e].notified = {}
        /\ ~elems[e].destroyed
        /\ InSeq(store, e)
====
